---- MODULE Spec2Model ----
(***************************************************************************)
(* Model of the contextual search service: the ContextualSearchEngine      *)
(* (index schema, document indexing, the three retrieval modes), the       *)
(* DocumentService / SearchService layers on top of it and the lifespan    *)
(* startup of the FastAPI application, the module globals of               *)
(* app.core.dependencies, and the planning agent (Agent, AgentService and  *)
(* the agent routes).                                                      *)
(*                                                                         *)
(* The backing store (an OpenSearch index reached through self.client) is  *)
(* state of the model: whether the index exists, its mapping and the       *)
(* documents stored under their ids.  Every client call can fail; the      *)
(* failure is an input of the action that makes the call.                  *)
(***************************************************************************)
EXTENDS Integers, Sequences, FiniteSets, TLC

(***************************************************************************)
(* Bounds of the model.                                                    *)
(***************************************************************************)
NumDocs == 2       \* document ids are 1..NumDocs
MaxSize == 2       \* request sizes are 1..MaxSize
MaxConfigured == 2 \* settings.max_search_size ranges over 0..MaxConfigured
D == 2             \* embedding dimension reported by the loaded model
NumThreads == 2    \* request threads inside the dependency functions
MaxAgents == 2     \* create_agent is called while fewer agents are registered
MaxAgentCalls == 4 \* calls that change the AgentService or an agent

Ids == 1..NumDocs

(***************************************************************************)
(* Python values.  None and a missing dict key are sentinels of the same   *)
(* TLA+ type as the values they stand in for: a string for str fields, a   *)
(* one-element sequence for list fields.                                   *)
(***************************************************************************)
NoneStr == "<None>"
AbsentStr == "<absent>"
NoneTags == <<NoneStr>>
AbsentTags == <<AbsentStr>>

\* Python truthiness of an Optional[str]: None and '' are falsy.
TruthyStr(v) == v \notin {NoneStr, ""}

\* Python truthiness of an Optional[List[str]]: None and [] are falsy.
TruthyTags(v) == v \notin {NoneTags, <<>>}

\* dict.get(key, default): the default only when the key is missing.
GetStr(v, default) == IF v = AbsentStr THEN default ELSE v

GetTags(v, default) == IF v = AbsentTags THEN default ELSE v

\* dict.get(key): None when the key is missing.
GetStrOrNone(v) == IF v = AbsentStr THEN NoneStr ELSE v

Range(s) == {s[i] : i \in DOMAIN s}

Min(a, b) == IF a <= b THEN a ELSE b

(***************************************************************************)
(* Embedding Provider.                                                     *)
(***************************************************************************)
\* The loaded model as a fixed text -> number table; the vector is the
\* number's base-3 digits, so equal texts give equal vectors.
TextCode(text) ==
    CASE text = "cats" -> 1
      [] text = "pets" -> 2
      [] text = "stock" -> 4
      [] text = "markets" -> 5
      [] text = "" -> 8
      [] OTHER -> 7

RECURSIVE Pow3(_)
Pow3(n) == IF n = 0 THEN 1 ELSE 3 * Pow3(n - 1)

\* self.embedding_model.encode(text).tolist()
Encode(text) == [i \in 1..D |-> (TextCode(text) \div Pow3(i - 1)) % 3]

ZeroVector == [i \in 1..D |-> 0]

\* Faulty variant: the fallback is a single zero, whatever the dimension.
GenerateEmbeddingsShort(text, modelFails) ==
    IF modelFails \/ text = NoneStr THEN <<0>> ELSE Encode(text)

\* Faulty variant: the fallback is the embedding of the empty text.
GenerateEmbeddingsOfEmpty(text, modelFails) ==
    IF modelFails \/ text = NoneStr THEN Encode("") ELSE Encode(text)

\* _generate_embeddings: encode raises when inference fails (or the text is
\* None); the except branch returns D zeros.
GenerateEmbeddings(text, modelFails) ==
    IF modelFails \/ text = NoneStr THEN ZeroVector ELSE Encode(text)

\* datetime.utcnow().isoformat(): the time of the call.
UtcNow == "now"


(***************************************************************************)
(* The backing store: one index, reached through self.client.             *)
(*   store.exists   the index exists                                      *)
(*   store.mapping  [type, dimension]: "knn" when created by create_index, *)
(*                  "dynamic" when the store created the index itself on  *)
(*                  the first write, "none" while there is no index        *)
(*   store.docs     id -> _source of the documents of the index            *)
(***************************************************************************)
NoMapping == [type |-> "none", dimension |-> 0]

EmptyStore == [exists |-> FALSE, mapping |-> NoMapping, docs |-> <<>>]

\* The exceptions a client call can raise.
StoreErrors == {"ConnectionError"}

\* A knn_vector field rejects a vector whose length is not its dimension.
StoreAccepts(st, body) ==
    st.mapping.type = "knn" =>
        /\ Len(body.title_vector) = st.mapping.dimension
        /\ Len(body.content_vector) = st.mapping.dimension

Put(docs, id, body) ==
    [i \in (DOMAIN docs) \cup {id} |-> IF i = id THEN body ELSE docs[i]]

\* An accepted write by id: insert or replace the whole _source; a write to
\* a missing index makes the store create it with a dynamic mapping.
StoreWrite(st, id, body) ==
    [exists |-> TRUE,
     mapping |-> IF st.exists THEN st.mapping
                 ELSE [type |-> "dynamic", dimension |-> 0],
     docs |-> Put(st.docs, id, body)]

\* client.indices.delete: the index goes with all its documents.
StoreDeleteIndex(st) == EmptyStore

\* client.indices.create with the body of create_index.
StoreCreateIndex(st, index_settings) ==
    [exists |-> TRUE,
     mapping |-> [type |-> index_settings.content_vector.type,
                  dimension |-> index_settings.content_vector.dimension],
     docs |-> <<>>]

(***************************************************************************)
(* Index Schema Manager.  An operation ends as a record: store is the     *)
(* store it leaves, calls the client calls it issued, fault the exception  *)
(* a client call raised ("" when none did), raised/error whether and with  *)
(* what the operation itself raised.                                       *)
(***************************************************************************)
\* The operation returned and no call raised.
Returned(st, calls) ==
    [store |-> st, raised |-> FALSE, error |-> "", calls |-> calls,
     fault |-> ""]

\* A call raised and nothing caught it.
Raised(st, calls, error) ==
    [store |-> st, raised |-> TRUE, error |-> error, calls |-> calls,
     fault |-> error]

\* A call raised, an except branch logged it and the operation returned.
Swallowed(st, calls, fault) ==
    [store |-> st, raised |-> FALSE, error |-> "", calls |-> calls,
     fault |-> fault]

\* Faulty variant: the body wrapped in the try/except of the retrieval
\* operations.
delete_index_swallow(st, existsResp, deleteResp) ==
    IF existsResp # "ok" THEN Swallowed(st, <<"exists">>, existsResp)
    ELSE IF ~st.exists THEN Returned(st, <<"exists">>)
    ELSE IF deleteResp # "ok"
         THEN Swallowed(st, <<"exists", "delete">>, deleteResp)
    ELSE Returned(StoreDeleteIndex(st), <<"exists", "delete">>)

\* Faulty variant: the delete without the exists check; the store answers
\* a delete of a missing index with an error.
delete_index_unchecked(st, existsResp, deleteResp) ==
    IF deleteResp # "ok" THEN Raised(st, <<"delete">>, deleteResp)
    ELSE IF ~st.exists THEN Raised(st, <<"delete">>, "NotFoundError")
    ELSE Returned(StoreDeleteIndex(st), <<"delete">>)

delete_index(st, existsResp, deleteResp) ==
    IF existsResp # "ok" THEN Raised(st, <<"exists">>, existsResp)
    ELSE IF ~st.exists THEN Returned(st, <<"exists">>)
    ELSE IF deleteResp # "ok" THEN Raised(st, <<"exists", "delete">>, deleteResp)
    ELSE Returned(StoreDeleteIndex(st), <<"exists", "delete">>)

\* index_settings of create_index: the two knn_vector fields.
IndexSettings(vector_dimension) ==
    [title_vector |-> [type |-> "knn", dimension |-> vector_dimension],
     content_vector |-> [type |-> "knn", dimension |-> vector_dimension]]

\* Faulty variant: the index is created again when it already exists.
create_index_recreate(st, vector_dimension, existsResp, createResp) ==
    IF existsResp # "ok" THEN Raised(st, <<"exists">>, existsResp)
    ELSE IF createResp # "ok" THEN Raised(st, <<"exists", "create">>, createResp)
    ELSE Returned(StoreCreateIndex(st, IndexSettings(vector_dimension)),
                  <<"exists", "create">>)

create_index(st, vector_dimension, existsResp, createResp) ==
    IF existsResp # "ok" THEN Raised(st, <<"exists">>, existsResp)
    ELSE IF st.exists THEN Returned(st, <<"exists">>)
    ELSE IF createResp # "ok" THEN Raised(st, <<"exists", "create">>, createResp)
    ELSE Returned(StoreCreateIndex(st, IndexSettings(vector_dimension)),
                  <<"exists", "create">>)

(***************************************************************************)
(* Document Indexer.                                                       *)
(***************************************************************************)
\* Faulty variant: a created_at given by the caller is ignored.
DocumentBodyNow(title, content, category, tags, created_at, modelFails) ==
    [title |-> title,
     content |-> content,
     title_vector |-> GenerateEmbeddings(title, modelFails),
     content_vector |-> GenerateEmbeddings(content, modelFails),
     category |-> IF TruthyStr(category) THEN category ELSE "",
     tags |-> IF TruthyTags(tags) THEN tags ELSE <<>>,
     created_at |-> UtcNow]

\* The document dict of index_document.
DocumentBody(title, content, category, tags, created_at, modelFails) ==
    [title |-> title,
     content |-> content,
     title_vector |-> GenerateEmbeddings(title, modelFails),
     content_vector |-> GenerateEmbeddings(content, modelFails),
     category |-> IF TruthyStr(category) THEN category ELSE "",
     tags |-> IF TruthyTags(tags) THEN tags ELSE <<>>,
     created_at |-> IF TruthyStr(created_at) THEN created_at ELSE UtcNow]

\* index_document: the except branch logs the failure of client.index and
\* the method returns None as after a write.
index_document(st, doc_id, doc, modelFails, indexResp) ==
    LET body == DocumentBody(doc.title, doc.content, doc.category, doc.tags,
                             doc.created_at, modelFails)
    IN  IF indexResp # "ok" THEN Swallowed(st, <<"index">>, indexResp)
        ELSE IF ~StoreAccepts(st, body)
             THEN Swallowed(st, <<"index">>, "RequestError")
        ELSE Returned(StoreWrite(st, doc_id, body), <<"index">>)

\* The "_source" of one bulk action; doc is a dict, a key may be missing.
BulkSource(doc, modelFails) ==
    [title |-> GetStrOrNone(doc.title),
     content |-> GetStrOrNone(doc.content),
     title_vector |-> GenerateEmbeddings(GetStr(doc.title, ""), modelFails),
     content_vector |-> GenerateEmbeddings(GetStr(doc.content, ""), modelFails),
     category |-> GetStr(doc.category, ""),
     tags |-> GetTags(doc.tags, <<>>),
     created_at |-> IF TruthyStr(GetStrOrNone(doc.created_at))
                    THEN doc.created_at ELSE UtcNow]

\* One action per input document, in input order.
BulkActions(documents, modelFails) ==
    [i \in DOMAIN documents |->
        [id |-> documents[i].id, source |-> BulkSource(documents[i], modelFails)]]

\* helpers.bulk: the store applies the actions in order; the items in
\* written are the ones it accepts, the others fail on their own.
RECURSIVE StoreBulk(_, _, _, _)
StoreBulk(st, actions, written, i) ==
    IF i > Len(actions) THEN st
    ELSE IF i \in written /\ StoreAccepts(st, actions[i].source)
         THEN StoreBulk(StoreWrite(st, actions[i].id, actions[i].source),
                        actions, written, i + 1)
    ELSE StoreBulk(st, actions, written, i + 1)

\* Faulty variant: a failed batch is undone, the index is as before.
bulk_index_documents_rollback(st, documents, modelFails, written) ==
    LET actions == BulkActions(documents, modelFails)
        after == StoreBulk(st, actions, written, 1)
        failed == \E i \in DOMAIN actions :
                     i \notin written \/ ~StoreAccepts(st, actions[i].source)
    IN  IF failed THEN Swallowed(st, <<"bulk">>, "BulkIndexError")
        ELSE Returned(after, <<"bulk">>)

\* bulk_index_documents: every action goes into one helpers.bulk call; its
\* failure is logged and the method returns None either way.
bulk_index_documents(st, documents, modelFails, written) ==
    LET actions == BulkActions(documents, modelFails)
        after == StoreBulk(st, actions, written, 1)
        failed == \E i \in DOMAIN actions :
                     i \notin written \/ ~StoreAccepts(st, actions[i].source)
    IN  IF failed THEN Swallowed(after, <<"bulk">>, "BulkIndexError")
        ELSE Returned(after, <<"bulk">>)

(***************************************************************************)
(* Query evaluation in the store.  A search body is                        *)
(*   [kind, text, vector, k, size, filter, tags, keyword_boost,            *)
(*    semantic_boost]; scores are in tenths.                               *)
(***************************************************************************)
\* search_body has no "filter" key.
NoFilter == AbsentStr

RECURSIVE SumSq(_, _, _)
SumSq(u, v, i) ==
    IF i > Len(u) \/ i > Len(v) THEN 0
    ELSE (u[i] - v[i]) * (u[i] - v[i]) + SumSq(u, v, i + 1)

\* L2 similarity of the k-NN plugin, 1 / (1 + d^2), on an integer scale.
KnnScore(u, v) == 90 \div (1 + SumSq(u, v, 1))

\* multi_match, best_fields, title^2 and content: the better field counts.
TextScore(text, source) ==
    IF source.title = text THEN 2
    ELSE IF source.content = text THEN 1
    ELSE 0

\* The term filter on the keyword field category.
PassesFilter(source, filter) == filter = NoFilter \/ source.category = filter

\* Ids by descending score, equal scores in id order.
RECURSIVE Ranked(_, _)
Ranked(S, score) ==
    IF S = {} THEN <<>>
    ELSE LET best == CHOOSE i \in S : \A j \in S :
                        score[i] > score[j] \/ (score[i] = score[j] /\ i <= j)
         IN  <<best>> \o Ranked(S \ {best}, score)

Take(seq, n) == IF n <= 0 THEN <<>> ELSE SubSeq(seq, 1, Min(n, Len(seq)))

\* The k nearest documents to the query vector.  filterMode "pre": the
\* category filter narrows the candidates before the k nearest are taken;
\* "post": the k nearest of the whole index are taken first.
KnnTop(st, body, filterMode) ==
    LET cand == {i \in DOMAIN st.docs :
                    filterMode = "pre" => PassesFilter(st.docs[i], body.filter)}
        score == [i \in cand |-> KnnScore(body.vector, st.docs[i].content_vector)]
    IN  Range(Take(Ranked(cand, score), body.k))

\* The documents the query matches; top is KnnTop of the query.
Matches(st, body, top) ==
    LET passing == {i \in DOMAIN st.docs : PassesFilter(st.docs[i], body.filter)}
    IN  CASE body.kind = "knn" -> passing \cap top
          [] body.kind = "hybrid" ->
                \* bool/should: with a filter clause beside it no should
                \* clause has to match (minimum_should_match is 0).
                {i \in passing :
                    \/ body.filter # NoFilter
                    \/ TextScore(body.text, st.docs[i]) > 0
                    \/ i \in top}
          [] body.kind = "terms" ->
                {i \in DOMAIN st.docs :
                    /\ st.docs[i].tags # NoneTags
                    /\ Range(st.docs[i].tags) \cap Range(body.tags) # {}}
          [] OTHER -> {}

\* _score of a matching document: the sum of its matching clauses.
HitScore(st, body, top, i) ==
    CASE body.kind = "knn" ->
            10 * KnnScore(body.vector, st.docs[i].content_vector)
      [] body.kind = "hybrid" ->
            body.keyword_boost * TextScore(body.text, st.docs[i])
            + (IF i \in top
               THEN body.semantic_boost
                    * KnnScore(body.vector, st.docs[i].content_vector)
               ELSE 0)
      [] OTHER -> 10

\* The fields of a hit that get a highlight (none without a text query).
Highlight(body, source) ==
    IF body.kind = "hybrid"
    THEN {f \in {"title", "content"} : source[f] = body.text}
    ELSE {}

\* Why the store rejects the search, "" when it does not.
SearchRejected(st, body) ==
    IF ~st.exists THEN "NotFoundError"
    ELSE IF body.kind \in {"knn", "hybrid"}
            /\ (st.mapping.type # "knn" \/ body.k < 1
                \/ Len(body.vector) # st.mapping.dimension)
         THEN "RequestError"
    ELSE IF body.kind = "terms" /\ body.tags = NoneTags THEN "RequestError"
    ELSE IF body.size < 0 THEN "RequestError"
    ELSE ""

\* response['hits']['hits'] of client.search: at most size hits.
StoreSearch(st, body, filterMode) ==
    LET top == IF body.kind = "terms" THEN {} ELSE KnnTop(st, body, filterMode)
        matching == Matches(st, body, top)
        score == [i \in matching |-> HitScore(st, body, top, i)]
        order == Take(Ranked(matching, score), body.size)
    IN  [n \in DOMAIN order |->
            [id |-> order[n],
             score |-> score[order[n]],
             source |-> st.docs[order[n]],
             highlight |-> Highlight(body, st.docs[order[n]])]]

(***************************************************************************)
(* Retrieval Engine.                                                       *)
(***************************************************************************)
NoBody ==
    [kind |-> "none", text |-> "", vector |-> <<>>, k |-> 0, size |-> 0,
     filter |-> NoFilter, tags |-> <<>>, keyword_boost |-> 0,
     semantic_boost |-> 0]

\* Faulty variant: the category filter is never added.
SemanticSearchBodyNoFilter(query, size, category, modelFails) ==
    [NoBody EXCEPT !.kind = "knn",
                   !.vector = GenerateEmbeddings(query, modelFails),
                   !.k = size,
                   !.size = size]

\* search_body of semantic_search, with the filter added when category is
\* truthy.
SemanticSearchBody(query, size, category, modelFails) ==
    [NoBody EXCEPT !.kind = "knn",
                   !.vector = GenerateEmbeddings(query, modelFails),
                   !.k = size,
                   !.size = size,
                   !.filter = IF TruthyStr(category) THEN category ELSE NoFilter]

\* search_body of hybrid_search; the weights are in tenths.
HybridSearchBody(query, size, category, semantic_weight, keyword_weight, modelFails) ==
    [NoBody EXCEPT !.kind = "hybrid",
                   !.text = query,
                   !.vector = GenerateEmbeddings(query, modelFails),
                   !.k = size,
                   !.size = size,
                   !.keyword_boost = keyword_weight,
                   !.semantic_boost = semantic_weight,
                   !.filter = IF TruthyStr(category) THEN category ELSE NoFilter]

\* Faulty variant: only the first tag is sent.
TagSearchBodyFirst(tags, size) ==
    [NoBody EXCEPT !.kind = "terms",
                   !.tags = IF tags \in {NoneTags, <<>>} THEN tags
                            ELSE <<tags[1]>>,
                   !.size = size]

\* search_body of search_by_tags.
TagSearchBody(tags, size) ==
    [NoBody EXCEPT !.kind = "terms", !.tags = tags, !.size = size]

\* Faulty variant: a hit whose score is 0 is left out.
MapHitsScored(hits, withHighlights) ==
    LET kept == SelectSeq(hits, LAMBDA h : h.score > 0)
    IN  [n \in DOMAIN kept |->
            [id |-> kept[n].id,
             score |-> kept[n].score,
             title |-> kept[n].source.title,
             content |-> kept[n].source.content,
             category |-> kept[n].source.category,
             tags |-> kept[n].source.tags,
             highlights |-> IF withHighlights THEN kept[n].highlight ELSE {}]]

\* One result dict per hit, in hit order.  The tag search builds no
\* 'highlights' key.
MapHits(hits, withHighlights) ==
    [n \in DOMAIN hits |->
        [id |-> hits[n].id,
         score |-> hits[n].score,
         title |-> hits[n].source.title,
         content |-> hits[n].source.content,
         category |-> hits[n].source.category,
         tags |-> hits[n].source.tags,
         highlights |-> IF withHighlights THEN hits[n].highlight ELSE {}]]

\* The raw hits of a response, as <<id, score>> pairs in the store's order.
HitKeys(hits) == [n \in DOMAIN hits |-> <<hits[n].id, hits[n].score>>]

\* The try block returned the results built from hits.
Found(st, body, hits, results) ==
    Returned(st, <<"search">>)
    @@ [body |-> body, hits |-> HitKeys(hits), results |-> results]

\* except Exception: return []
FoundNothing(st, body, fault) ==
    Swallowed(st, <<"search">>, fault)
    @@ [body |-> body, hits |-> <<>>, results |-> <<>>]

SearchRaised(st, body, error) ==
    Raised(st, <<"search">>, error)
    @@ [body |-> body, hits |-> <<>>, results |-> <<>>]

\* What client.search or the mapping of its hits raises, "" when nothing.
SearchFault(st, body, searchResp) ==
    IF searchResp = "malformed" THEN "KeyError"
    ELSE IF searchResp # "ok" THEN searchResp
    ELSE SearchRejected(st, body)

\* Faulty variant: only the client's exceptions are caught, a KeyError of
\* the hit mapping reaches the caller.
RunSearchNarrow(st, body, withHighlights, searchResp, filterMode) ==
    IF searchResp = "malformed" THEN SearchRaised(st, body, "KeyError")
    ELSE IF SearchFault(st, body, searchResp) # ""
         THEN FoundNothing(st, body, SearchFault(st, body, searchResp))
    ELSE LET hits == StoreSearch(st, body, filterMode)
         IN  Found(st, body, hits, MapHits(hits, withHighlights))

\* The try block shared by the three retrieval operations: client.search,
\* the mapping of the hits, and "except Exception: return []".
\* searchResp "malformed": the response lacks a key the mapping reads.
RunSearch(st, body, withHighlights, searchResp, filterMode) ==
    IF SearchFault(st, body, searchResp) # ""
    THEN FoundNothing(st, body, SearchFault(st, body, searchResp))
    ELSE LET hits == StoreSearch(st, body, filterMode)
         IN  Found(st, body, hits, MapHits(hits, withHighlights))

semantic_search(st, query, size, category, modelFails, searchResp, filterMode) ==
    RunSearch(st, SemanticSearchBody(query, size, category, modelFails),
              TRUE, searchResp, filterMode)

hybrid_search(st, query, size, category, semantic_weight, keyword_weight, modelFails, searchResp, filterMode) ==
    RunSearch(st, HybridSearchBody(query, size, category, semantic_weight,
                                   keyword_weight, modelFails),
              TRUE, searchResp, filterMode)

search_by_tags(st, tags, size, searchResp, filterMode) ==
    RunSearch(st, TagSearchBody(tags, size), FALSE, searchResp, filterMode)

(***************************************************************************)
(* Service layer.                                                          *)
(***************************************************************************)
\* A response message: the text is fixed by the method (kind), the query or
\* tags of the request and the number of results.
NoMessage == [kind |-> "", query |-> "", tags |-> <<>>, count |-> 0]

NoResponse ==
    [success |-> FALSE, status |-> "", message |-> NoMessage,
     total_count |-> 0, count |-> 0]

\* StatusResponse(success=True, ..., status="document_added")
DocumentAdded ==
    [success |-> TRUE, status |-> "document_added",
     message |-> [NoMessage EXCEPT !.kind = "document_added"],
     total_count |-> 0, count |-> 0]

\* DocumentService.add_document: index_document, then the success response;
\* an exception of index_document is logged and raised again.
add_document(st, request, modelFails, indexResp) ==
    LET r == index_document(st, request.doc_id,
                            [title |-> request.title,
                             content |-> request.content,
                             category |-> request.category,
                             tags |-> request.tags,
                             created_at |-> NoneStr],
                            modelFails, indexResp)
    IN  r @@ [response |-> IF r.raised THEN NoResponse ELSE DocumentAdded]

\* SearchResult(...) accepts the result: title and content are str, tags a
\* List[str]; None fails the validation.
SearchResultValid(result) ==
    /\ result.title # NoneStr
    /\ result.content # NoneStr
    /\ result.tags # NoneTags

\* Faulty variant: request.size is passed on without the cap.
EngineSizeUncapped(request_size, max_search_size) == request_size

\* size=min(request.size, self.settings.max_search_size)
EngineSize(request_size, max_search_size) == Min(request_size, max_search_size)

\* message=f"... '{request.query}' ... {len(results)} ..."
SearchMessage(kind, query, tags, results) ==
    [kind |-> kind, query |-> query, tags |-> tags, count |-> Len(results)]

\* Faulty variant: the response tells a failed store call from an answer.
SearchResponseOfFlagged(r, kind, query, tags) ==
    IF r.raised THEN r @@ [response |-> NoResponse]
    ELSE IF \E n \in DOMAIN r.results : ~SearchResultValid(r.results[n])
    THEN [r EXCEPT !.raised = TRUE, !.error = "ValidationError"]
         @@ [response |-> NoResponse]
    ELSE r @@ [response |-> [success |-> r.fault = "", status |-> "",
                             message |-> SearchMessage(kind, query, tags,
                                                       r.results),
                             total_count |-> Len(r.results),
                             count |-> Len(r.results)]]

\* The part of the three SearchService methods after the engine call: one
\* SearchResult per result, then the SearchResponse; an exception is logged
\* and raised again.
SearchResponseOf(r, kind, query, tags) ==
    IF r.raised THEN r @@ [response |-> NoResponse]
    ELSE IF \E n \in DOMAIN r.results : ~SearchResultValid(r.results[n])
    THEN [r EXCEPT !.raised = TRUE, !.error = "ValidationError"]
         @@ [response |-> NoResponse]
    ELSE r @@ [response |-> [success |-> TRUE, status |-> "",
                             message |-> SearchMessage(kind, query, tags,
                                                       r.results),
                             total_count |-> Len(r.results),
                             count |-> Len(r.results)]]

\* Faulty variant: empty statistics are reported as a failure.
get_statistics_route_checked(r) ==
    r @@ [response |-> [NoResponse EXCEPT
                           !.success = ~r.stats.empty,
                           !.message = [NoMessage EXCEPT !.kind = "statistics"]]]

\* GET /search/statistics: whatever dict the service returned goes into
\* StatisticsResponse(success=True, message=..., statistics=stats).
get_statistics_route(r) ==
    r @@ [response |-> IF r.raised THEN NoResponse
                       ELSE [NoResponse EXCEPT
                                !.success = TRUE,
                                !.message = [NoMessage EXCEPT
                                                !.kind = "statistics"]]]

\* The route handlers: the service's response goes out as it is, an
\* exception becomes HTTPException(status_code=500).
ApiStatus(r) == IF r.raised THEN 500 ELSE 200

\* A missing document, and the {} of a failed statistics call.
NoDocument ==
    [title |-> NoneStr, content |-> NoneStr, title_vector |-> <<>>,
     content_vector |-> <<>>, category |-> NoneStr, tags |-> NoneTags,
     created_at |-> NoneStr]

NoStatistics ==
    [total_documents |-> 0, index_name |-> "", embedding_model |-> "",
     vector_dimension |-> 0, empty |-> TRUE]

\* Faulty variant: the document the index holds under its lowest id is
\* returned, whatever the id asked for.
get_document_first(st, index_name, search_index_name, doc_id, getResp) ==
    IF getResp # "ok"
    THEN Raised(st, <<"get">>, getResp) @@ [document |-> NoDocument]
    ELSE IF search_index_name # index_name \/ ~st.exists
            \/ doc_id \notin DOMAIN st.docs
    THEN Raised(st, <<"get">>, "NotFoundError") @@ [document |-> NoDocument]
    ELSE Returned(st, <<"get">>)
         @@ [document |-> st.docs[CHOOSE i \in DOMAIN st.docs :
                                     \A j \in DOMAIN st.docs : i <= j]]

\* DocumentService.get_document: client.get on the index named in the
\* settings returns the stored _source; every exception is raised again.
\* index_name is the index the engine writes, the only one with documents.
get_document(st, index_name, search_index_name, doc_id, getResp) ==
    IF getResp # "ok"
    THEN Raised(st, <<"get">>, getResp) @@ [document |-> NoDocument]
    ELSE IF search_index_name # index_name \/ ~st.exists
            \/ doc_id \notin DOMAIN st.docs
    THEN Raised(st, <<"get">>, "NotFoundError") @@ [document |-> NoDocument]
    ELSE Returned(st, <<"get">>) @@ [document |-> st.docs[doc_id]]

\* StatusResponse(success=True, ..., status="document_deleted")
DocumentDeleted ==
    [success |-> TRUE, status |-> "document_deleted",
     message |-> [NoMessage EXCEPT !.kind = "document_deleted"],
     total_count |-> 0, count |-> 0]

\* DocumentService.delete_document: client.delete on the index named in
\* the settings removes the document; every exception is raised again.
delete_document(st, index_name, search_index_name, doc_id, deleteResp) ==
    IF deleteResp # "ok"
    THEN Raised(st, <<"delete">>, deleteResp) @@ [response |-> NoResponse]
    ELSE IF search_index_name # index_name \/ ~st.exists
            \/ doc_id \notin DOMAIN st.docs
    THEN Raised(st, <<"delete">>, "NotFoundError") @@ [response |-> NoResponse]
    ELSE Returned([st EXCEPT !.docs = [i \in DOMAIN st.docs \ {doc_id} |->
                                          st.docs[i]]],
                  <<"delete">>)
         @@ [response |-> DocumentDeleted]

\* Faulty variant: the document count is the one taken when the engine was
\* constructed.
get_statistics_cached(st, eng, statsResp) ==
    IF statsResp # "ok"
    THEN Swallowed(st, <<"stats">>,
                   IF statsResp = "malformed" THEN "KeyError" ELSE statsResp)
         @@ [stats |-> NoStatistics]
    ELSE IF ~st.exists
    THEN Swallowed(st, <<"stats">>, "NotFoundError") @@ [stats |-> NoStatistics]
    ELSE Returned(st, <<"stats">>)
         @@ [stats |-> [total_documents |-> 0,
                        index_name |-> eng.index_name,
                        embedding_model |-> eng.model_name,
                        vector_dimension |-> eng.vector_dimension,
                        empty |-> FALSE]]

\* get_statistics: client.indices.stats on the index, then the dict built
\* from the answer and the engine's fields; except Exception: return {}.
get_statistics(st, eng, statsResp) ==
    IF statsResp # "ok"
    THEN Swallowed(st, <<"stats">>,
                   IF statsResp = "malformed" THEN "KeyError" ELSE statsResp)
         @@ [stats |-> NoStatistics]
    ELSE IF ~st.exists
    THEN Swallowed(st, <<"stats">>, "NotFoundError") @@ [stats |-> NoStatistics]
    ELSE Returned(st, <<"stats">>)
         @@ [stats |-> [total_documents |-> Cardinality(DOMAIN st.docs),
                        index_name |-> eng.index_name,
                        embedding_model |-> eng.model_name,
                        vector_dimension |-> eng.vector_dimension,
                        empty |-> FALSE]]

(***************************************************************************)
(* Application startup.                                                    *)
(***************************************************************************)
\* load_sample_data(): the fixed sample corpus.
SampleDocs ==
    <<[id |-> 1, title |-> "cats", content |-> "pets", category |-> "pets",
       tags |-> <<"a", "b">>, created_at |-> AbsentStr],
      [id |-> 2, title |-> "stock", content |-> "markets",
       category |-> "finance", tags |-> <<"c">>, created_at |-> AbsentStr]>>

\* The body of lifespan before the yield: each engine call in turn; the
\* except branch logs and raises again, so the first call that raises ends
\* the startup.  steps lists the calls that returned.
lifespan(st, vector_dimension, existsResp1, deleteResp, existsResp2, createResp, modelFails, written) ==
    LET r1 == delete_index(st, existsResp1, deleteResp)
        r2 == create_index(r1.store, vector_dimension, existsResp2, createResp)
        r3 == bulk_index_documents(r2.store, SampleDocs, modelFails, written)
    IN  IF r1.raised THEN r1 @@ [steps |-> <<>>]
        ELSE IF r2.raised
             THEN [r2 EXCEPT !.calls = r1.calls \o r2.calls]
                  @@ [steps |-> <<"delete_index">>]
        ELSE IF r3.raised
             THEN [r3 EXCEPT !.calls = r1.calls \o r2.calls \o r3.calls]
                  @@ [steps |-> <<"delete_index", "create_index">>]
        ELSE [r3 EXCEPT !.calls = r1.calls \o r2.calls \o r3.calls]
             @@ [steps |-> <<"delete_index", "create_index",
                             "bulk_index_documents">>]

(***************************************************************************)
(* Inputs.                                                                 *)
(***************************************************************************)
Resps == {"ok"} \cup StoreErrors

SearchResps == Resps \cup {"malformed"}

FilterModes == {"pre", "post"}

\* Arguments of index_document: every optional given, and every optional
\* None.
SingleDocs ==
    {[title |-> "cats", content |-> "pets", category |-> "pets",
      tags |-> <<"a", "b">>, created_at |-> NoneStr],
     [title |-> "stock", content |-> "markets", category |-> NoneStr,
      tags |-> NoneTags, created_at |-> "t0"]}

\* DocumentRequest objects.
DocumentRequests ==
    {[doc_id |-> id, title |-> "cats", content |-> "pets",
      category |-> "pets", tags |-> <<"a", "b">>] : id \in Ids}

\* Dicts given to bulk_index_documents: one with category and tags None,
\* one without the optional keys.
BulkDocs ==
    {[id |-> id, title |-> d.title, content |-> d.content,
      category |-> d.category, tags |-> d.tags, created_at |-> d.created_at] :
        id \in Ids,
        d \in {[title |-> "cats", content |-> "markets", category |-> NoneStr,
                tags |-> NoneTags, created_at |-> "t1"],
               [title |-> "stock", content |-> "pets", category |-> AbsentStr,
                tags |-> AbsentTags, created_at |-> AbsentStr]}}

\* Batches of one document, and of two with different keys (under one id
\* or two).
Batches ==
    {<<a>> : a \in BulkDocs}
    \cup {<<a, b>> : a \in {d \in BulkDocs : d.category = NoneStr},
                     b \in {d \in BulkDocs : d.category = AbsentStr}}

Queries == {"cats", "markets"}

CategoryArgs == {NoneStr, "", "pets"}

TagArgs == {<<"a">>, <<"a", "c">>}

\* Weights in tenths: the defaults 0.7 / 0.3 and the extreme 1 / 0.
WeightArgs == {<<7, 3>>, <<10, 0>>}

\* The inputs of an operation.
NoRequest ==
    [doc_id |-> 0, query |-> "", size |-> 0, category |-> NoneStr,
     tags |-> <<>>, weights |-> <<0, 0>>, modelFails |-> FALSE,
     searchResp |-> "", filterMode |-> ""]

(***************************************************************************)
(* The planning agent: Agent, AgentService and the agent routes.           *)
(***************************************************************************)
\* f"agent_{n}"
AgentName(n) == <<"agent_", n>>

\* The agent ids a request can carry; the last is never registered.
AgentIds == {AgentName(n) : n \in 1..(MaxAgents + 1)}

ToolNames == {"search", "analyze", "translate"}

\* The keys of the parameters dict of an execute request.
ParameterSets == {{}, {"query"}, {"tool_name"}}

\* Agent.__init__.  calls_think and calls_execute count the calls made on
\* the object; the code keeps no such field.
NewAgent(name) ==
    [name |-> name, status |-> "idle", memory |-> <<>>,
     actions_history |-> <<>>, calls_think |-> 0, calls_execute |-> 0]

\* Agent.think: the status, then one plan entry appended to the memory.
think(agent, goal) ==
    [agent EXCEPT !.status = "thinking",
                  !.memory = Append(@, [type |-> "plan", goal |-> goal]),
                  !.calls_think = @ + 1]

\* execute_action(self, tool_name, **parameters) called as
\* execute_action(tool_name, **parameters): a key of the dict that names
\* the parameter self or tool_name is a second value for it, a TypeError
\* before the body runs.
Binds(parameters) == parameters \cap {"self", "tool_name"} = {}

\* AgentAction after the try block: success for the two known tools, the
\* error message for any other.
ActionOf(tool_name) ==
    [tool_name |-> tool_name,
     success |-> tool_name \in {"search", "analyze"},
     error_message |-> IF tool_name \in {"search", "analyze"} THEN NoneStr
                       ELSE "Unknown tool"]

NoAction == [tool_name |-> "", success |-> FALSE, error_message |-> NoneStr]

\* Agent.execute_action: [agent, raised, error, action].
execute_action(agent, tool_name, parameters) ==
    IF ~Binds(parameters)
    THEN [agent |-> [agent EXCEPT !.calls_execute = @ + 1],
          raised |-> TRUE, error |-> "TypeError", action |-> NoAction]
    ELSE [agent |-> [agent EXCEPT
                        !.status = "executing",
                        !.actions_history = Append(@, ActionOf(tool_name)),
                        !.calls_execute = @ + 1],
          raised |-> FALSE, error |-> "", action |-> ActionOf(tool_name)]

\* Agent.get_status
get_status(agent) ==
    [name |-> agent.name,
     status |-> agent.status,
     total_actions |-> Len(agent.actions_history),
     successful_actions |->
         Len(SelectSeq(agent.actions_history, LAMBDA a : a.success)),
     memory_entries |-> Len(agent.memory)]

NoStatus ==
    [name |-> <<"", 0>>, status |-> "", total_actions |-> 0,
     successful_actions |-> 0, memory_entries |-> 0]

\* AgentService.create_agent: the name is made from the number of agents
\* registered, and the new agent is put under it.
create_agent(registry) ==
    LET agent_name == AgentName(Cardinality(DOMAIN registry) + 1)
    IN  [registry |-> (agent_name :> NewAgent(agent_name)) @@ registry,
         agent_name |-> agent_name]

\* AgentService.delete_agent
delete_agent(registry, agent_id) ==
    IF agent_id \in DOMAIN registry
    THEN [registry |-> [a \in DOMAIN registry \ {agent_id} |-> registry[a]],
          deleted |-> TRUE]
    ELSE [registry |-> registry, deleted |-> FALSE]

\* The outcome of a route handler: the registry afterwards, the HTTP
\* status and the detail of the HTTPException, "" when it returned.
Responded(registry, status_code, detail) ==
    [registry |-> registry, status_code |-> status_code, detail |-> detail]

\* "except Exception as e: raise HTTPException(status_code=500,
\* detail=str(e))" around the body of every agent route: HTTPException is
\* an Exception, so the 404 raised inside the try block is caught too
\* and leaves as a 500 whose detail is str(e) of the 404.
NotFoundInTry(registry) == Responded(registry, 500, "404: Agent not found")

\* POST /agent/create: create_agent, then think.
create_agent_route(registry, goal) ==
    LET c == create_agent(registry)
    IN  Responded([c.registry EXCEPT
                      ![c.agent_name] = think(c.registry[c.agent_name], goal)],
                  200, "")
        @@ [agent_name |-> c.agent_name]

\* POST /agent/{agent_id}/execute
execute_agent_action(registry, agent_id, tool_name, parameters) ==
    IF agent_id \notin DOMAIN registry THEN NotFoundInTry(registry)
    ELSE LET r == execute_action(registry[agent_id], tool_name, parameters)
             after == [registry EXCEPT ![agent_id] = r.agent]
         IN  IF r.raised THEN Responded(after, 500, r.error)
             ELSE Responded(after, 200, "")

\* GET /agent/{agent_id}/status
get_agent_status(registry, agent_id) ==
    IF agent_id \notin DOMAIN registry
    THEN NotFoundInTry(registry) @@ [body |-> NoStatus]
    ELSE Responded(registry, 200, "")
         @@ [body |-> get_status(registry[agent_id])]

\* GET /agent/{agent_id}/history
get_agent_history(registry, agent_id) ==
    IF agent_id \notin DOMAIN registry THEN NotFoundInTry(registry)
    ELSE Responded(registry, 200, "")

\* AgentService.__init__: no agents.  calls counts the calls that change
\* the service or an agent; last is the last call.
NoAgentCall ==
    [op |-> "none", agent_id |-> <<"", 0>>, status_code |-> 0,
     detail |-> "", body |-> NoStatus]

NoAgents ==
    [registry |-> <<>>, calls |-> 0, last |-> NoAgentCall]

(***************************************************************************)
(* State.                                                                  *)
(***************************************************************************)
VARIABLES
    store,      \* the backing store's index
    engine,     \* fields of the ContextualSearchEngine instance
    settings,   \* the Settings instance
    phase,      \* "starting", "serving" or "failed"
    startup,    \* what the lifespan startup did: the steps that returned
                \* and the sample documents the store took
    last,       \* the last operation: its input, its client calls, how it
                \* ended, and whether it replaced or removed a stored record
    latest,     \* per id, the last write that reached the store
    deps,       \* the module globals of app.core.dependencies and the
                \* request threads inside its two functions
    agents      \* the AgentService instance: its agents dict, and the
                \* last call made on it or through the agent routes

vars == <<store, engine, settings, phase, startup, last, latest, deps, agents>>

NoLast ==
    [op |-> "none", raised |-> FALSE, error |-> "", calls |-> <<>>,
     fault |-> "", body |-> NoBody, hits |-> <<>>, results |-> <<>>,
     request |-> NoRequest, response |-> NoResponse, displaced |-> FALSE,
     document |-> NoDocument, stats |-> NoStatistics]

NoCall == [path |-> "none", doc |-> <<>>, modelFails |-> FALSE]

NoStartup == [steps |-> <<>>, written |-> {}]

\* __init__: index_name, model_name and the dimension the model reports.
Engine ==
    [index_name |-> "contextual_documents",
     model_name |-> "sentence-transformers/all-MiniLM-L6-v2",
     vector_dimension |-> D]

\* An index left by an earlier run of the service.
LeftoverStore ==
    [exists |-> TRUE,
     mapping |-> [type |-> "knn", dimension |-> D],
     docs |-> (NumDocs :> BulkSource(SampleDocs[1], FALSE))]

\* Settings: search_index_name keeps its default, the engine's index.
SettingsValues ==
    [max_search_size : 0..MaxConfigured,
     search_index_name : {"contextual_documents"}]

DefaultSettings ==
    [max_search_size |-> MaxConfigured,
     search_index_name |-> "contextual_documents"]

\* Settings() reads search_index_name from the environment or .env;
\* TestSettings names "test_contextual_documents".
IndexNameSettings ==
    [max_search_size : {MaxConfigured},
     search_index_name : {"contextual_documents",
                          "test_contextual_documents"}]

\* The threads that run the dependency functions of concurrent requests.
Threads == 1..NumThreads

\* _search_engine and _search_service are None (0) or hold an instance:
\* search_engine the number of the engine constructed, search_service the
\* number of the engine the service wraps.  constructed counts the
\* ContextualSearchEngine objects made.  A thread is idle or between the
\* None test and the rest of a function; got is the engine its caller
\* received last, lifespan the one the startup received.
NoThread == [pc |-> "idle", sawNone |-> FALSE, got |-> 0]

NoDeps ==
    [search_engine |-> 0, search_service |-> 0, constructed |-> 0,
     lifespan |-> 0, threads |-> [t \in Threads |-> NoThread]]

\* The rest of get_search_engine after the None test: construct and assign
\* when the test saw None, then return the global.
GetSearchEngineRest(d, sawNone) ==
    IF sawNone
    THEN [d EXCEPT !.constructed = d.constructed + 1,
                   !.search_engine = d.constructed + 1]
    ELSE d

\* Faulty variant: the startup does not ask for the engine.
StartupEngineSkipped(d) == d

\* search_engine = get_search_engine() in lifespan; nothing else runs yet.
StartupEngine(d) ==
    LET after == GetSearchEngineRest(d, d.search_engine = 0)
    IN  [after EXCEPT !.lifespan = after.search_engine]

\* The globals of a process that serves.
ServingDeps == StartupEngine(NoDeps)

\* _source records the indexer writes: the sample corpus, a document
\* without category and tags, one whose embedding failed, and one whose
\* category and tags are None.
StoredSources ==
    {BulkSource(SampleDocs[i], FALSE) : i \in DOMAIN SampleDocs}
    \cup {DocumentBody("stock", "markets", NoneStr, NoneTags, "t0", FALSE),
          DocumentBody("cats", "pets", "pets", <<"a", "b">>, NoneStr, TRUE),
          BulkSource([title |-> "cats", content |-> "markets",
                      category |-> NoneStr, tags |-> NoneTags,
                      created_at |-> "t1"], FALSE)}

\* The indexes the indexer can have filled after create_index.
FilledStores ==
    {[exists |-> TRUE, mapping |-> [type |-> "knn", dimension |-> D],
      docs |-> docs] :
        docs \in UNION {[S -> StoredSources] : S \in SUBSET Ids}}

\* The engine and the services in use, no index yet.
Init ==
    /\ store = EmptyStore
    /\ engine = Engine
    /\ settings = DefaultSettings
    /\ phase = "serving"
    /\ startup = NoStartup
    /\ last = NoLast
    /\ latest = [i \in Ids |-> NoCall]
    /\ deps = ServingDeps
    /\ agents = NoAgents

\* A query arrives: the store is missing, was created by a first write, or
\* was filled by the indexer.
InitSearch ==
    /\ store \in FilledStores
                 \cup {EmptyStore,
                       StoreWrite(EmptyStore, 1, BulkSource(SampleDocs[1], FALSE))}
    /\ engine = Engine
    /\ settings \in SettingsValues
    /\ phase = "serving"
    /\ startup = NoStartup
    /\ last = NoLast
    /\ latest = [i \in Ids |-> NoCall]
    /\ deps = ServingDeps
    /\ agents = NoAgents

\* The process before the lifespan startup.
InitApp ==
    /\ store \in {EmptyStore, LeftoverStore}
    /\ engine = Engine
    /\ settings \in SettingsValues
    /\ phase = "starting"
    /\ startup = NoStartup
    /\ last = NoLast
    /\ latest = [i \in Ids |-> NoCall]
    /\ deps = NoDeps
    /\ agents = NoAgents

\* The process before the lifespan startup, default settings, no index.
InitDeps ==
    /\ store = EmptyStore
    /\ engine = Engine
    /\ settings = DefaultSettings
    /\ phase = "starting"
    /\ startup = NoStartup
    /\ last = NoLast
    /\ latest = [i \in Ids |-> NoCall]
    /\ deps = NoDeps
    /\ agents = NoAgents

(***************************************************************************)
(* Actions: one per operation, the whole call.                             *)
(***************************************************************************)
\* last after an index or schema operation that ended as r.
LastOf(op, r, request) ==
    [NoLast EXCEPT !.op = op, !.raised = r.raised, !.error = r.error,
                   !.calls = r.calls, !.fault = r.fault, !.request = request,
                   !.displaced = \E i \in DOMAIN store.docs :
                                    \/ i \notin DOMAIN r.store.docs
                                    \/ r.store.docs[i] # store.docs[i]]

\* latest after the batch: the accepted items, in order.
RECURSIVE NoteBulk(_, _, _, _, _)
NoteBulk(lt, documents, modelFails, written, i) ==
    IF i > Len(documents) THEN lt
    ELSE IF i \in written
         THEN NoteBulk([lt EXCEPT ![documents[i].id] =
                            [path |-> "bulk", doc |-> documents[i],
                             modelFails |-> modelFails]],
                       documents, modelFails, written, i + 1)
    ELSE NoteBulk(lt, documents, modelFails, written, i + 1)

DeleteIndex ==
    /\ phase = "serving"
    /\ \E existsResp \in Resps, deleteResp \in Resps :
          LET r == delete_index(store, existsResp, deleteResp)
          IN  /\ store' = r.store
              /\ last' = LastOf("delete_index", r, NoRequest)
              /\ latest' = IF ~r.raised /\ r.calls = <<"exists", "delete">>
                           THEN [i \in Ids |-> NoCall]
                           ELSE latest
    /\ UNCHANGED <<engine, settings, phase, startup, deps, agents>>

CreateIndex ==
    /\ phase = "serving"
    /\ \E existsResp \in Resps, createResp \in Resps :
          LET r == create_index(store, engine.vector_dimension, existsResp,
                                createResp)
          IN  /\ store' = r.store
              /\ last' = LastOf("create_index", r, NoRequest)
    /\ UNCHANGED <<engine, settings, phase, startup, latest, deps, agents>>

IndexDocument ==
    /\ phase = "serving"
    /\ \E doc_id \in Ids, doc \in SingleDocs, modelFails \in BOOLEAN,
          indexResp \in Resps :
          LET r == index_document(store, doc_id, doc, modelFails, indexResp)
          IN  /\ store' = r.store
              /\ last' = LastOf("index_document", r,
                                [NoRequest EXCEPT !.doc_id = doc_id,
                                                  !.modelFails = modelFails])
              /\ latest' = IF indexResp = "ok"
                           THEN [latest EXCEPT ![doc_id] =
                                    [path |-> "single", doc |-> doc,
                                     modelFails |-> modelFails]]
                           ELSE latest
    /\ UNCHANGED <<engine, settings, phase, startup, deps, agents>>

BulkIndexDocuments ==
    /\ phase = "serving"
    /\ \E documents \in Batches, modelFails \in {FALSE} :
          \E written \in SUBSET (DOMAIN documents) :
             LET r == bulk_index_documents(store, documents, modelFails, written)
             IN  /\ store' = r.store
                 /\ last' = LastOf("bulk_index_documents", r,
                                   [NoRequest EXCEPT
                                       !.modelFails = modelFails])
                 /\ latest' = NoteBulk(latest, documents, modelFails, written, 1)
    /\ UNCHANGED <<engine, settings, phase, startup, deps, agents>>

AddDocument ==
    /\ phase = "serving"
    /\ \E request \in DocumentRequests, modelFails \in BOOLEAN,
          indexResp \in Resps :
          LET r == add_document(store, request, modelFails, indexResp)
          IN  /\ store' = r.store
              /\ last' = [LastOf("add_document", r,
                                 [NoRequest EXCEPT !.doc_id = request.doc_id,
                                                   !.modelFails = modelFails])
                            EXCEPT !.response = r.response]
              /\ latest' = IF indexResp = "ok"
                           THEN [latest EXCEPT ![request.doc_id] =
                                    [path |-> "single",
                                     doc |-> [title |-> request.title,
                                              content |-> request.content,
                                              category |-> request.category,
                                              tags |-> request.tags,
                                              created_at |-> NoneStr],
                                     modelFails |-> modelFails]]
                           ELSE latest
    /\ UNCHANGED <<engine, settings, phase, startup, deps, agents>>

SearchOps == {"semantic_search", "hybrid_search", "search_by_tags"}

\* The store's way of filtering shows only in an answered, filtered query.
FilterModesFor(category, searchResp) ==
    IF TruthyStr(category) /\ searchResp = "ok" THEN FilterModes ELSE {"pre"}

\* last after a SearchService method that ended as r.
LastSearch(op, r, request) ==
    [NoLast EXCEPT !.op = op, !.raised = r.raised, !.error = r.error,
                   !.calls = r.calls, !.fault = r.fault, !.body = r.body,
                   !.hits = r.hits, !.results = r.results,
                   !.request = request, !.response = r.response]

SemanticSearch ==
    /\ phase = "serving"
    /\ \E query \in Queries, request_size \in 1..MaxSize,
          category \in CategoryArgs, modelFails \in BOOLEAN,
          searchResp \in SearchResps :
          \E filterMode \in FilterModesFor(category, searchResp) :
          LET size == EngineSize(request_size, settings.max_search_size)
              r == SearchResponseOf(
                       semantic_search(store, query, size, category,
                                       modelFails, searchResp, filterMode),
                       "semantic_search", query, <<>>)
          IN  /\ store' = r.store
              /\ last' = LastSearch("semantic_search", r,
                                    [NoRequest EXCEPT !.query = query,
                                                      !.size = request_size,
                                                      !.category = category,
                                                      !.modelFails = modelFails,
                                                      !.searchResp = searchResp,
                                                      !.filterMode = filterMode])
    /\ UNCHANGED <<engine, settings, phase, startup, latest, deps, agents>>

HybridSearch ==
    /\ phase = "serving"
    /\ \E query \in Queries, request_size \in 1..MaxSize,
          category \in CategoryArgs, weights \in WeightArgs,
          modelFails \in BOOLEAN, searchResp \in SearchResps :
          \E filterMode \in FilterModesFor(category, searchResp) :
          LET size == EngineSize(request_size, settings.max_search_size)
              r == SearchResponseOf(
                       hybrid_search(store, query, size, category, weights[1],
                                     weights[2], modelFails, searchResp,
                                     filterMode),
                       "hybrid_search", query, <<>>)
          IN  /\ store' = r.store
              /\ last' = LastSearch("hybrid_search", r,
                                    [NoRequest EXCEPT !.query = query,
                                                      !.size = request_size,
                                                      !.category = category,
                                                      !.weights = weights,
                                                      !.modelFails = modelFails,
                                                      !.searchResp = searchResp,
                                                      !.filterMode = filterMode])
    /\ UNCHANGED <<engine, settings, phase, startup, latest, deps, agents>>

SearchByTags ==
    /\ phase = "serving"
    /\ \E tags \in TagArgs, request_size \in 1..MaxSize,
          searchResp \in SearchResps :
          LET size == EngineSize(request_size, settings.max_search_size)
              r == SearchResponseOf(
                       search_by_tags(store, tags, size, searchResp, "pre"),
                       "search_by_tags", "", tags)
          IN  /\ store' = r.store
              /\ last' = LastSearch("search_by_tags", r,
                                    [NoRequest EXCEPT !.tags = tags,
                                                      !.size = request_size,
                                                      !.searchResp = searchResp,
                                                      !.filterMode = "pre"])
    /\ UNCHANGED <<engine, settings, phase, startup, latest, deps, agents>>

\* GET /documents/{doc_id}: DocumentService.get_document.
GetDocument ==
    /\ phase = "serving"
    /\ \E doc_id \in Ids, getResp \in Resps :
          LET r == get_document(store, engine.index_name,
                                settings.search_index_name, doc_id, getResp)
          IN  /\ store' = r.store
              /\ last' = [LastOf("get_document", r,
                                 [NoRequest EXCEPT !.doc_id = doc_id,
                                                   !.searchResp = getResp])
                            EXCEPT !.document = r.document]
    /\ UNCHANGED <<engine, settings, phase, startup, latest, deps, agents>>

\* GET /search/statistics: SearchService.get_statistics hands on what the
\* engine returns, the route wraps it.
GetStatistics ==
    /\ phase = "serving"
    /\ \E statsResp \in SearchResps :
          LET r == get_statistics_route(
                       get_statistics(store, engine, statsResp))
          IN  /\ store' = r.store
              /\ last' = [LastOf("get_statistics", r,
                                 [NoRequest EXCEPT !.searchResp = statsResp])
                            EXCEPT !.stats = r.stats,
                                   !.response = r.response]
    /\ UNCHANGED <<engine, settings, phase, startup, latest, deps, agents>>

\* deps with thread t changed to th.
WithThread(d, t, th) == [d EXCEPT !.threads[t] = th]

\* get_search_engine, called for a request: the test of the global.
GetSearchEngineTest ==
    /\ phase = "serving"
    /\ \E t \in Threads :
          /\ deps.threads[t].pc = "idle"
          /\ deps' = WithThread(deps, t,
                         [deps.threads[t] EXCEPT
                             !.pc = "engine_tested",
                             !.sawNone = deps.search_engine = 0])
    /\ UNCHANGED <<store, engine, settings, phase, startup, last, latest, agents>>

\* get_search_engine: the rest, and the return of the global.
GetSearchEngineReturn ==
    /\ \E t \in Threads :
          /\ deps.threads[t].pc = "engine_tested"
          /\ LET d == GetSearchEngineRest(deps, deps.threads[t].sawNone)
             IN  deps' = WithThread(d, t,
                            [pc |-> "idle", sawNone |-> FALSE,
                             got |-> d.search_engine])
    /\ UNCHANGED <<store, engine, settings, phase, startup, last, latest, agents>>

\* get_search_service, called for a request: the test of the global.
GetSearchServiceTest ==
    /\ phase = "serving"
    /\ \E t \in Threads :
          /\ deps.threads[t].pc = "idle"
          /\ deps' = WithThread(deps, t,
                         [deps.threads[t] EXCEPT
                             !.pc = "service_tested",
                             !.sawNone = deps.search_service = 0])
    /\ UNCHANGED <<store, engine, settings, phase, startup, last, latest, agents>>

\* get_search_service when the test saw a service: return the global.
GetSearchServiceReturn ==
    /\ \E t \in Threads :
          /\ deps.threads[t].pc = "service_tested"
          /\ ~deps.threads[t].sawNone
          /\ deps' = WithThread(deps, t,
                         [pc |-> "idle", sawNone |-> FALSE,
                          got |-> deps.search_service])
    /\ UNCHANGED <<store, engine, settings, phase, startup, last, latest, agents>>

\* get_search_service when the test saw None: get_search_engine is called,
\* here its test of the global.
GetSearchServiceEngineTest ==
    /\ \E t \in Threads :
          /\ deps.threads[t].pc = "service_tested"
          /\ deps.threads[t].sawNone
          /\ deps' = WithThread(deps, t,
                         [deps.threads[t] EXCEPT
                             !.pc = "service_engine_tested",
                             !.sawNone = deps.search_engine = 0])
    /\ UNCHANGED <<store, engine, settings, phase, startup, last, latest, agents>>

\* The rest of that get_search_engine call; got is the local search_engine.
GetSearchServiceEngineReturn ==
    /\ \E t \in Threads :
          /\ deps.threads[t].pc = "service_engine_tested"
          /\ LET d == GetSearchEngineRest(deps, deps.threads[t].sawNone)
             IN  deps' = WithThread(d, t,
                            [pc |-> "service_has_engine", sawNone |-> FALSE,
                             got |-> d.search_engine])
    /\ UNCHANGED <<store, engine, settings, phase, startup, last, latest, agents>>

\* _search_service = SearchService(search_engine); return _search_service
GetSearchServiceConstruct ==
    /\ \E t \in Threads :
          /\ deps.threads[t].pc = "service_has_engine"
          /\ deps' = WithThread(
                         [deps EXCEPT !.search_service = deps.threads[t].got],
                         t, [pc |-> "idle", sawNone |-> FALSE,
                             got |-> deps.threads[t].got])
    /\ UNCHANGED <<store, engine, settings, phase, startup, last, latest, agents>>

\* The lifespan startup: serving begins when it returns, never when it
\* raises.
Startup ==
    /\ phase = "starting"
    /\ \E existsResp1 \in Resps, deleteResp \in Resps, existsResp2 \in Resps,
          createResp \in Resps, modelFails \in BOOLEAN,
          written \in SUBSET (DOMAIN SampleDocs) :
          LET r == lifespan(store, engine.vector_dimension, existsResp1,
                            deleteResp, existsResp2, createResp, modelFails,
                            written)
          IN  /\ store' = r.store
              /\ phase' = IF r.raised THEN "failed" ELSE "serving"
              /\ startup' = [steps |-> r.steps,
                             written |-> IF Len(r.steps) >= 2 THEN written ELSE {}]
              /\ last' = LastOf("lifespan", r,
                                [NoRequest EXCEPT !.modelFails = modelFails])
              /\ latest' = IF Len(r.steps) >= 2
                           THEN NoteBulk([i \in Ids |-> NoCall], SampleDocs,
                                         modelFails, written, 1)
                           ELSE [i \in Ids |-> NoCall]
              /\ deps' = StartupEngine(deps)
    /\ UNCHANGED <<engine, settings, agents>>

\* Indexing and schema operations, in every order.
Next ==
    \/ DeleteIndex
    \/ CreateIndex
    \/ IndexDocument
    \/ BulkIndexDocuments
    \/ AddDocument

Spec == Init /\ [][Next]_vars

\* One operation against the store: a query, or a write for the
\* properties that span both, and the fetch by id that follows an
\* index_document.  A query leaves the store alone and overwrites last, so
\* a second query reaches no state the first cannot.
NextSearch ==
    \/ last.op = "none" /\ SemanticSearch
    \/ last.op = "none" /\ HybridSearch
    \/ last.op = "none" /\ SearchByTags
    \/ last.op = "none" /\ IndexDocument
    \/ last.op = "none" /\ BulkIndexDocuments
    \/ last.op = "index_document" /\ GetDocument

SpecSearch == InitSearch /\ [][NextSearch]_vars

\* The application: the lifespan startup, then requests.  A vector query
\* is the first request after the startup.
NextApp ==
    \/ Startup
    \/ AddDocument
    \/ SearchByTags
    \/ GetStatistics
    \/ last.op = "lifespan" /\ SemanticSearch
    \/ last.op = "lifespan" /\ HybridSearch

SpecApp == InitApp /\ [][NextApp]_vars

\* The dependency functions: the startup, then the threads of concurrent
\* requests, each statement by statement.
NextDeps ==
    \/ Startup
    \/ GetSearchEngineTest
    \/ GetSearchEngineReturn
    \/ GetSearchServiceTest
    \/ GetSearchServiceReturn
    \/ GetSearchServiceEngineTest
    \/ GetSearchServiceEngineReturn
    \/ GetSearchServiceConstruct

SpecDeps == InitDeps /\ [][NextDeps]_vars

\* DELETE /documents/{doc_id}: DocumentService.delete_document.
DeleteDocument ==
    /\ phase = "serving"
    /\ \E doc_id \in Ids, deleteResp \in Resps :
          LET r == delete_document(store, engine.index_name,
                                   settings.search_index_name, doc_id,
                                   deleteResp)
          IN  /\ store' = r.store
              /\ last' = [LastOf("delete_document", r,
                                 [NoRequest EXCEPT !.doc_id = doc_id,
                                                   !.searchResp = deleteResp])
                            EXCEPT !.response = r.response]
              /\ latest' = IF r.raised THEN latest
                           ELSE [latest EXCEPT ![doc_id] = NoCall]
    /\ UNCHANGED <<engine, settings, phase, startup, deps, agents>>

\* The process serves under any of the settings; the index is empty.
InitDocs ==
    /\ store = EmptyStore
    /\ engine = Engine
    /\ settings \in IndexNameSettings
    /\ phase = "serving"
    /\ startup = NoStartup
    /\ last = NoLast
    /\ latest = [i \in Ids |-> NoCall]
    /\ deps = ServingDeps
    /\ agents = NoAgents

\* The document routes, in every order.
NextDocs ==
    \/ AddDocument
    \/ GetDocument
    \/ DeleteDocument

SpecDocs == InitDocs /\ [][NextDocs]_vars

(***************************************************************************)
(* The agent routes and the AgentService methods.                          *)
(***************************************************************************)
\* The other variables of an agent step.
AgentFrame == UNCHANGED <<store, engine, settings, phase, startup, last, latest, deps>>

\* The agents variable after a call.
AgentsAfter(registry, counted, op, agent_id, status_code, detail, body) ==
    [registry |-> registry,
     calls |-> IF counted THEN agents.calls + 1 ELSE agents.calls,
     last |-> [op |-> op, agent_id |-> agent_id,
               status_code |-> status_code, detail |-> detail,
               body |-> body]]

\* POST /agent/create
CreateAgent ==
    /\ phase = "serving"
    /\ agents.calls < MaxAgentCalls
    /\ Cardinality(DOMAIN agents.registry) < MaxAgents
    /\ LET r == create_agent_route(agents.registry, "goal")
       IN  agents' = AgentsAfter(r.registry, TRUE, "create_agent",
                                 r.agent_name, r.status_code, r.detail,
                                 NoStatus)
    /\ AgentFrame

\* AgentService.delete_agent
DeleteAgent ==
    /\ agents.calls < MaxAgentCalls
    /\ \E agent_id \in AgentIds :
          LET r == delete_agent(agents.registry, agent_id)
          IN  agents' = AgentsAfter(r.registry, TRUE, "delete_agent",
                                    agent_id, 0, "", NoStatus)
    /\ AgentFrame

\* Agent.think on a registered agent.
AgentThink ==
    /\ agents.calls < MaxAgentCalls
    /\ \E agent_id \in DOMAIN agents.registry :
          agents' = AgentsAfter(
                        [agents.registry EXCEPT
                            ![agent_id] = think(agents.registry[agent_id],
                                                "goal")],
                        TRUE, "think", agent_id, 0, "", NoStatus)
    /\ AgentFrame

\* POST /agent/{agent_id}/execute
ExecuteAgentAction ==
    /\ phase = "serving"
    /\ agents.calls < MaxAgentCalls
    /\ \E agent_id \in AgentIds, tool_name \in ToolNames,
          parameters \in ParameterSets :
          LET r == execute_agent_action(agents.registry, agent_id, tool_name,
                                        parameters)
          IN  agents' = AgentsAfter(r.registry,
                                    agent_id \in DOMAIN agents.registry,
                                    "execute", agent_id, r.status_code,
                                    r.detail, NoStatus)
    /\ AgentFrame

\* GET /agent/{agent_id}/status
GetAgentStatus ==
    /\ phase = "serving"
    /\ \E agent_id \in AgentIds :
          LET r == get_agent_status(agents.registry, agent_id)
          IN  agents' = AgentsAfter(r.registry, FALSE, "status", agent_id,
                                    r.status_code, r.detail, r.body)
    /\ AgentFrame

\* GET /agent/{agent_id}/history
GetAgentHistory ==
    /\ phase = "serving"
    /\ \E agent_id \in AgentIds :
          LET r == get_agent_history(agents.registry, agent_id)
          IN  agents' = AgentsAfter(r.registry, FALSE, "history", agent_id,
                                    r.status_code, r.detail, NoStatus)
    /\ AgentFrame

\* The process serves; no agent has been created.
InitAgent == Init

\* The agent routes and service methods, in every order.
NextAgent ==
    \/ CreateAgent
    \/ DeleteAgent
    \/ AgentThink
    \/ ExecuteAgentAction
    \/ GetAgentStatus
    \/ GetAgentHistory

SpecAgent == InitAgent /\ [][NextAgent]_vars


(***************************************************************************)
(* Properties.                                                             *)
(***************************************************************************)
\* The vector the loaded model gives a text, D zeros when inference failed.
VectorOf(text, modelFails) ==
    IF modelFails \/ text = NoneStr THEN [i \in 1..D |-> 0]
    ELSE [i \in 1..D |-> (TextCode(text) \div Pow3(i - 1)) % 3]

\* The record a write call asks the store to keep: for index_document the
\* arguments with the documented defaults, for a bulk document its keys.
RecordOfCall(call) ==
    IF call.path = "single"
    THEN [title |-> call.doc.title,
          content |-> call.doc.content,
          title_vector |-> VectorOf(call.doc.title, call.modelFails),
          content_vector |-> VectorOf(call.doc.content, call.modelFails),
          category |-> IF call.doc.category \in {NoneStr, ""} THEN ""
                       ELSE call.doc.category,
          tags |-> IF call.doc.tags \in {NoneTags, <<>>} THEN <<>>
                   ELSE call.doc.tags,
          created_at |-> IF call.doc.created_at \in {NoneStr, ""} THEN UtcNow
                         ELSE call.doc.created_at]
    ELSE [title |-> call.doc.title,
          content |-> call.doc.content,
          title_vector |-> VectorOf(call.doc.title, call.modelFails),
          content_vector |-> VectorOf(call.doc.content, call.modelFails),
          category |-> IF call.doc.category = AbsentStr THEN ""
                       ELSE call.doc.category,
          tags |-> IF call.doc.tags = AbsentTags THEN <<>> ELSE call.doc.tags,
          created_at |-> IF call.doc.created_at \in {AbsentStr, NoneStr, ""}
                         THEN UtcNow ELSE call.doc.created_at]

\* C1: upsert is last-write-wins.  After any sequence of index_document,
\* add_document and bulk_index_documents calls, the record stored under an
\* id is exactly the record of the most recent write for that id that
\* reached the store, whole; an id no write reached stores nothing.
C1_LastWriteWins ==
    \A id \in Ids :
        IF latest[id].path = "none"
        THEN id \notin DOMAIN store.docs
        ELSE /\ id \in DOMAIN store.docs
             /\ store.docs[id] = RecordOfCall(latest[id])

\* C1 witness: index_document has just replaced a record that was stored
\* under its id, while another id keeps its record.
C1_Witness ==
    /\ last.op = "index_document"
    /\ last.displaced
    /\ last.fault = ""
    /\ \E other \in Ids \ {last.request.doc_id} : other \in DOMAIN store.docs

\* C2: when the store's index call fails, index_document raises, so
\* add_document does not answer "document_added".  (Stated as the claim
\* states it; the code logs the failure and returns.)
C2_IndexFailureRaises ==
    (last.op \in {"index_document", "add_document"} /\ last.fault # "")
        => (last.raised /\ last.response.status # "document_added")

\* C5: create_index is idempotent.  On an existing index it issues no
\* create request and leaves mapping and documents as they are, and it
\* returns normally when the exists call answers; a create_index that
\* follows a create_index that returned changes nothing.
C5_CreateIndexIdempotent ==
    [][ (last'.op = "create_index" /\ last' # last) =>
          /\ store.exists =>
                /\ store' = store
                /\ "create" \notin Range(last'.calls)
                /\ (last'.fault = "" => ~last'.raised)
          /\ (last.op = "create_index" /\ ~last.raised /\ ~last'.raised)
                => store' = store ]_vars

\* C5 witness: create_index returned after the exists call alone, on an
\* index that holds documents.
C5_Witness ==
    /\ last.op = "create_index"
    /\ ~last.raised
    /\ last.calls = <<"exists">>
    /\ DOMAIN store.docs # {}

\* C6: delete_index on an absent index changes nothing, issues no delete
\* request and returns normally when the exists call answers; on an
\* existing index a delete_index that returns has removed the index with
\* every document, and a create_index that follows it and returns makes an
\* empty index.
C6_DeleteIndex ==
    [][ /\ (last'.op = "delete_index" /\ last' # last) =>
             /\ ~store.exists =>
                   /\ store' = store
                   /\ "delete" \notin Range(last'.calls)
                   /\ (last'.fault = "" => ~last'.raised)
             /\ (store.exists /\ ~last'.raised) =>
                   /\ ~store'.exists
                   /\ store'.docs = <<>>
                   /\ store'.mapping = NoMapping
        /\ (last.op = "delete_index" /\ ~last.raised
            /\ last'.op = "create_index" /\ ~last'.raised) =>
             /\ store'.exists
             /\ store'.docs = <<>> ]_vars

\* C6 witness: delete_index has removed an index that held documents.
C6_Witness ==
    /\ last.op = "delete_index"
    /\ ~last.raised
    /\ last.displaced
    /\ ~store.exists

\* C7: a failure of the exists, create or delete call inside create_index
\* or delete_index reaches the caller as it was raised.
C7_SchemaFailuresPropagate ==
    (last.op \in {"create_index", "delete_index"} /\ last.fault # "")
        => (last.raised /\ last.error = last.fault)

\* C7 witness: the create call of create_index failed and create_index
\* raised.
C7_Witness ==
    /\ last.op = "create_index"
    /\ last.calls = <<"exists", "create">>
    /\ last.fault = "ConnectionError"
    /\ last.raised

\* C3: a retrieval operation whose store call or hit mapping fails returns
\* an empty list and does not raise, and every retrieval operation leaves
\* the store as it was.
C3_RetrievalSwallowsFailures ==
    [][ (last'.op \in SearchOps /\ last' # last) =>
          /\ store' = store
          /\ last'.fault # "" =>
                /\ last'.results = <<>>
                /\ ~last'.raised
                /\ last'.error = "" ]_vars

\* C3 witness: the mapping of the hits failed inside hybrid_search, on an
\* index that holds documents, and hybrid_search returned [].
C3_Witness ==
    /\ last.op = "hybrid_search"
    /\ last.fault = "KeyError"
    /\ last.results = <<>>
    /\ ~last.raised
    /\ DOMAIN store.docs # {}

\* C4: the service serves only after delete_index, create_index and the
\* bulk load of the sample corpus have all succeeded, in that order.
\* (Stated as the claim states it; a failed bulk write does not stop the
\* startup.)
C4_StartupGating ==
    phase = "serving" =>
        /\ startup.steps = <<"delete_index", "create_index",
                             "bulk_index_documents">>
        /\ startup.written = DOMAIN SampleDocs

\* The tags a stored record carries.
TagSet(source) == IF source.tags = NoneTags THEN {} ELSE Range(source.tags)

\* The size the service hands to the engine for the last request.
Cap == IF last.request.size <= settings.max_search_size
       THEN last.request.size ELSE settings.max_search_size

\* C8: search_by_tags has any-match semantics.  An answered tag search
\* returns only documents with a tag in common with the query, each once;
\* when the size does not limit it returns all of them, otherwise size of
\* them.
C8_TagsAnyMatch ==
    (last.op = "search_by_tags" /\ last.fault = "") =>
        LET common == {i \in DOMAIN store.docs :
                          TagSet(store.docs[i]) \cap Range(last.request.tags) # {}}
            returned == {last.results[n].id : n \in DOMAIN last.results}
        IN  /\ returned \subseteq common
            /\ Cardinality(returned) = Len(last.results)
            /\ IF Cardinality(common) <= Cap THEN returned = common
               ELSE Len(last.results) = Cap

\* C8 witness: the query [a, c] returned two documents, one of them
\* without the tag a.
C8_Witness ==
    /\ last.op = "search_by_tags"
    /\ last.request.tags = <<"a", "c">>
    /\ Len(last.results) = 2
    /\ \E n \in DOMAIN last.results : "a" \notin Range(last.results[n].tags)

\* C9: with a category given, semantic_search and hybrid_search put the
\* term filter on it into the query they send, and no result is a
\* document stored with another category.
C9_CategoryFilter ==
    (last.op \in {"semantic_search", "hybrid_search"}
     /\ last.request.category \notin {NoneStr, ""}) =>
        /\ last.body.filter = last.request.category
        /\ \A n \in DOMAIN last.results :
              /\ last.results[n].category = last.request.category
              /\ store.docs[last.results[n].id].category = last.request.category

\* C9 witness: semantic_search with category pets returned a document
\* while the index also holds a document of another category.
C9_Witness ==
    /\ last.op = "semantic_search"
    /\ last.request.category = "pets"
    /\ Len(last.results) >= 1
    /\ \E i \in DOMAIN store.docs : store.docs[i].category = "finance"

IdsOf(results) == [n \in DOMAIN results |-> results[n].id]

\* C11: weight extremes.  hybrid_search with semantic_weight 1 and
\* keyword_weight 0 returns the same sequence of ids as semantic_search
\* with the same query, size and category on the same index.  (Stated as
\* the claim states it; with a category the hybrid query also returns
\* documents outside the k nearest.)
C11_WeightExtremes ==
    (last.op = "hybrid_search" /\ last.request.weights = <<10, 0>>) =>
        IdsOf(last.results)
          = IdsOf(semantic_search(store, last.request.query, Cap,
                                  last.request.category,
                                  last.request.modelFails,
                                  last.request.searchResp,
                                  last.request.filterMode).results)

\* The arguments of the index_document call that wrote the document asked
\* for last.
Passed == latest[last.request.doc_id].doc

\* A fetch by id that follows an index_document of that id that reached
\* the store.
FetchedAfterIndex ==
    /\ last.op = "get_document"
    /\ last.request.searchResp = "ok"
    /\ latest[last.request.doc_id].path = "single"

ZeroHitResponse ==
    SearchResponseOf(Found(store, last.body, <<>>, <<>>), last.op,
                     last.request.query, last.request.tags).response

\* C13: a retrieval whose store call failed (connection lost, index
\* missing, timeout, malformed response) answers as if nothing matched:
\* no exception reaches the route (no HTTP 500), and the SearchResponse
\* is the one of a zero-hit answer: success True, total_count 0, results
\* [], the same message.
C13_FailureLooksEmpty ==
    (last.op \in SearchOps /\ last.fault # "") =>
        /\ ~last.raised
        /\ ApiStatus(last) = 200
        /\ last.results = <<>>
        /\ last.response.success
        /\ last.response.total_count = 0
        /\ last.response = ZeroHitResponse

\* C13 witness: a semantic search whose store call failed answered
\* success with no results, over an index that holds a document the same
\* request finds when the store answers.
C13_Witness ==
    /\ last.op = "semantic_search"
    /\ last.request.searchResp \notin {"ok", "malformed"}
    /\ last.fault = last.request.searchResp
    /\ last.response.success
    /\ last.response.total_count = 0
    /\ semantic_search(store, last.request.query, Cap, last.request.category,
                       last.request.modelFails, "ok",
                       last.request.filterMode).results # <<>>

\* The k nearest documents of the last request's nearest-neighbour clause.
LastTop == KnnTop(store, last.body, last.request.filterMode)

\* C14: hybrid_search eligibility and scoring.  A stored document is
\* returned only if it matches the text query or is among the k nearest
\* and, when a category is given, has that category; its score is
\* keyword_weight times its text score plus semantic_weight times its
\* vector score, a missing signal counting 0.  (With a category the bool
\* query's filter clause lets every document of the category match, so a
\* document matching neither signal is returned with score 0.)
C14_HybridEligibility ==
    (last.op = "hybrid_search" /\ last.fault = "") =>
        \A n \in DOMAIN last.results :
            LET id == last.results[n].id
                source == store.docs[id]
            IN  /\ TextScore(last.request.query, source) > 0 \/ id \in LastTop
                /\ last.request.category \notin {NoneStr, ""}
                      => source.category = last.request.category
                /\ last.results[n].score
                     = last.request.weights[2]
                           * TextScore(last.request.query, source)
                       + (IF id \in LastTop
                          THEN last.request.weights[1]
                               * KnnScore(last.body.vector,
                                          source.content_vector)
                          ELSE 0)

\* The scores of a list of <<id, score>> pairs never increase.
Descending(keys) ==
    \A m, n \in DOMAIN keys : m < n => keys[m][2] >= keys[n][2]

\* The hits the store returned to the last retrieval.
LastHits == HitKeys(StoreSearch(store, last.body, last.request.filterMode))

\* C15: result shaping preserves ranking.  An answered retrieval of any
\* mode returns one result per raw hit, in the order of the hits, with the
\* hit's id and score: nothing is reordered, merged or dropped, so the
\* results are in descending score order whenever the hits are; and
\* semantic_search returns at most size results.
C15_ShapingKeepsRanking ==
    (last.op \in SearchOps /\ last.fault = "" /\ ~last.raised) =>
        /\ last.hits = LastHits
        /\ Len(last.results) = Len(LastHits)
        /\ \A n \in DOMAIN last.results :
              <<last.results[n].id, last.results[n].score>> = LastHits[n]
        /\ Descending(LastHits) => Descending(HitKeys(last.results))
        /\ last.op = "semantic_search"
              => Len(last.results) <= last.request.size

\* C15 witness: a hybrid search returned two results in the order of the
\* two hits, the better one first.
C15_Witness ==
    /\ last.op = "hybrid_search"
    /\ last.fault = ""
    /\ ~last.raised
    /\ Len(LastHits) = 2
    /\ Len(last.results) = 2
    /\ last.results[1].score > last.results[2].score
    /\ last.results[1].id > last.results[2].id

\* C16: vector length invariant.  In every reachable state the engine's
\* vector_dimension is the D fixed at construction, the index mapping
\* create_index wrote declares that dimension, and every stored document's
\* title_vector and content_vector have that length, also when the
\* embedding failed and the zero vector was stored.
C16_VectorLength ==
    /\ engine.vector_dimension = D
    /\ store.mapping.type = "knn"
          => store.mapping.dimension = engine.vector_dimension
    /\ \A i \in DOMAIN store.docs :
          /\ Len(store.docs[i].title_vector) = engine.vector_dimension
          /\ Len(store.docs[i].content_vector) = engine.vector_dimension

\* C16 witness: a document whose embedding failed was stored with zero
\* vectors in the index create_index made, beside a document with a model
\* embedding.
C16_Witness ==
    /\ last.op = "index_document"
    /\ last.request.modelFails
    /\ ~last.raised
    /\ store.mapping.type = "knn"
    /\ last.request.doc_id \in DOMAIN store.docs
    /\ store.docs[last.request.doc_id].title_vector = ZeroVector
    /\ store.docs[last.request.doc_id].content_vector = ZeroVector
    /\ \E i \in DOMAIN store.docs : store.docs[i].content_vector # ZeroVector

\* The last call made to the store.
LastCall == IF last.calls = <<>> THEN "" ELSE last.calls[Len(last.calls)]

\* C17: embedding fallback.  When model inference fails,
\* _generate_embeddings returns D zeros and does not raise: a search goes
\* to the store with the zero vector as its query vector, index_document
\* and bulk_index_documents go to the store and what they write carries
\* zero vectors; the only exception such a call raises is the store's.
C17_EmbeddingFallback ==
    /\ \A text \in Queries \cup {NoneStr} :
          GenerateEmbeddings(text, TRUE) = [i \in 1..D |-> 0]
    /\ (last.op \in {"semantic_search", "hybrid_search"}
          /\ last.request.modelFails)
          => /\ ~last.raised
             /\ last.calls = <<"search">>
             /\ last.body.vector = [i \in 1..D |-> 0]
    /\ (last.op = "add_document" /\ last.request.modelFails)
          => /\ last.calls = <<"index">>
             /\ last.raised => last.error \in StoreErrors
    /\ (last.op = "lifespan" /\ last.request.modelFails /\ ~last.raised)
          => LastCall = "bulk"
    /\ \A id \in Ids :
          (latest[id].path # "none" /\ latest[id].modelFails)
          => /\ id \in DOMAIN store.docs
             /\ store.docs[id].title_vector = [i \in 1..D |-> 0]
             /\ store.docs[id].content_vector = [i \in 1..D |-> 0]

\* C17 witness: the indexer ran with a failing model, the index holds a
\* document it wrote with zero vectors, and a hybrid search then ran with
\* a failing model and was answered.
C17_Witness ==
    /\ last.op = "hybrid_search"
    /\ last.request.modelFails
    /\ last.fault = ""
    /\ last.body.vector = ZeroVector
    /\ \E id \in Ids : latest[id].path = "bulk" /\ latest[id].modelFails
                        /\ store.docs[id].content_vector = ZeroVector

\* The operations that only read.
ReadOps == SearchOps \cup {"get_statistics"}

\* C18: read-only operations have no side effects.  A step of
\* get_statistics, semantic_search, hybrid_search or search_by_tags,
\* answered or failed, leaves the index's existence, mapping and documents
\* and the engine's fields as they were; an answered get_statistics asks
\* the store and reports the number of documents the index holds at that
\* moment, so a document indexed between two calls is counted by the
\* second.
C18_ReadOnly ==
    [][last'.op \in ReadOps =>
          /\ store' = store
          /\ engine' = engine
          /\ last'.op = "get_statistics"
                => /\ last'.calls = <<"stats">>
                   /\ ~last'.raised
                   /\ last'.fault = ""
                         => /\ last'.stats.total_documents
                                 = Cardinality(DOMAIN store.docs)
                            /\ last'.stats.index_name = engine.index_name
                            /\ last'.stats.vector_dimension
                                 = engine.vector_dimension
                   /\ last'.fault # "" => last'.stats = NoStatistics]_vars

\* C18 witness: get_statistics reported two documents, one written by the
\* indexer at startup and one indexed afterwards by add_document.
C18_Witness ==
    /\ last.op = "get_statistics"
    /\ last.fault = ""
    /\ last.stats.total_documents = 2
    /\ Cardinality(DOMAIN store.docs) = 2
    /\ \E i, j \in Ids : latest[i].path = "bulk" /\ latest[j].path = "single"

\* C19: bulk indexing is one batch and not transactional.
\* bulk_index_documents builds one action per input document, keyed by
\* the document's id, and hands them to the store in a single bulk call;
\* when the batch fails partway the documents the store accepted stay
\* written, every other document of the index is as it was, no exception
\* reaches the caller and nothing is returned about single documents.
C19_BulkNotTransactional ==
    /\ \A documents \in Batches :
          LET actions == BulkActions(documents, FALSE)
          IN  /\ Len(actions) = Len(documents)
              /\ \A i \in DOMAIN documents : actions[i].id = documents[i].id
    /\ [][(last.op = "none" /\ last'.op = "bulk_index_documents") =>
             /\ last'.calls = <<"bulk">>
             /\ ~last'.raised
             /\ last'.response = NoResponse
             /\ \A id \in Ids :
                   IF latest'[id].path = "bulk"
                   THEN /\ id \in DOMAIN store'.docs
                        /\ store'.docs[id] = RecordOfCall(latest'[id])
                   ELSE /\ id \in DOMAIN store'.docs <=> id \in DOMAIN store.docs
                        /\ id \in DOMAIN store.docs
                              => store'.docs[id] = store.docs[id]]_vars

\* C19 witness: a batch failed partway; the document the store had
\* accepted is in the index, beside a document the batch did not touch.
C19_Witness ==
    /\ last.op = "bulk_index_documents"
    /\ last.fault = "BulkIndexError"
    /\ ~last.raised
    /\ \E id \in Ids :
          /\ latest[id].path = "bulk"
          /\ id \in DOMAIN store.docs
          /\ store.docs[id] = RecordOfCall(latest[id])
    /\ \E id \in DOMAIN store.docs : latest[id].path = "none"

\* C20: single engine instance.  Whatever the interleaving of the
\* startup's get_search_engine call and of the get_search_engine and
\* get_search_service calls of concurrent requests, at most one
\* ContextualSearchEngine is constructed, and the startup, every caller
\* of get_search_engine and every SearchService hold that instance.
C20_SingleEngine ==
    /\ deps.constructed <= 1
    /\ deps.search_engine \in {0, 1}
    /\ deps.lifespan \in {0, deps.search_engine}
    /\ deps.search_service \in {0, deps.search_engine}
    /\ \A t \in Threads : deps.threads[t].got \in {0, deps.search_engine}

\* C20 witness: every request thread has been handed the engine the
\* startup constructed, one of them through a SearchService built in a
\* request, while a thread is again between the test and the return.
C20_Witness ==
    /\ deps.constructed = 1
    /\ deps.lifespan = 1
    /\ deps.search_service = 1
    /\ \A t \in Threads : deps.threads[t].got = 1
    /\ \E t \in Threads : deps.threads[t].pc # "idle"

\* C21: agent ids stay unique under create and delete.  Every
\* create_agent registers its agent under an id no registered agent
\* holds: it replaces no agent, every agent registered before is still
\* the same, and one more agent is registered.  (The id is made from the
\* number of registered agents, which a delete lowers.)
C21_AgentIdsUnique ==
    [][(agents'.last.op = "create_agent"
          /\ agents'.calls = agents.calls + 1) =>
            /\ agents'.last.agent_id \notin DOMAIN agents.registry
            /\ Cardinality(DOMAIN agents'.registry)
                 = Cardinality(DOMAIN agents.registry) + 1
            /\ \A a \in DOMAIN agents.registry :
                  agents'.registry[a] = agents.registry[a]]_vars

\* C22: document get and delete target the engine's index.  Under every
\* settings configuration, get_document of an id that add_document wrote
\* returns the record stored under that id, and delete_document of such
\* an id removes it, whenever the store answers the call.  (The engine
\* writes to 'contextual_documents' whatever the settings name, the
\* service reads and deletes in settings.search_index_name.)
C22_SameIndex ==
    [][(/\ last'.op \in {"get_document", "delete_document"}
        /\ last'.request.searchResp = "ok"
        /\ latest[last'.request.doc_id].path = "single") =>
            /\ ~last'.raised
            /\ last'.op = "get_document"
                  => last'.document = store.docs[last'.request.doc_id]
            /\ last'.op = "delete_document"
                  => last'.request.doc_id \notin DOMAIN store'.docs]_vars

\* C23: unknown agent yields 404.  The execute, status and history
\* routes, called with an agent_id that is not registered, respond with
\* status 404 "Agent not found" and change no agent.  (The 404 is raised
\* inside the try block whose except branch turns every exception into a
\* 500.)
C23_UnknownAgent404 ==
    [][(/\ agents'.last.op \in {"execute", "status", "history"}
        /\ agents'.last.agent_id \notin DOMAIN agents.registry) =>
            /\ agents'.last.status_code = 404
            /\ agents'.last.detail = "Agent not found"
            /\ agents'.registry = agents.registry]_vars

\* The argument index_document receives for a key of a document dict: a
\* missing key leaves the parameter at its default.
ArgumentOf(v, default) == IF v = AbsentStr THEN default ELSE v

ArgumentOfTags(v) == IF v = AbsentTags THEN NoneTags ELSE v

\* The record index_document stores for the fields of a document dict
\* (category: Optional[str] = '', tags = None, created_at = None).
SingleRecordOf(doc, modelFails) ==
    DocumentBody(doc.title, doc.content, ArgumentOf(doc.category, ""),
                 ArgumentOfTags(doc.tags), ArgumentOf(doc.created_at, NoneStr),
                 modelFails)

\* C24: single and bulk indexing store the same record.  The record
\* bulk_index_documents stored under an id has the title, content,
\* category and tags index_document stores for the same fields, also when
\* the category or tags key is missing or holds None; a None category is
\* stored as '' and None tags as [].  (The bulk path stores the None of a
\* present key as it is.)
C24_SingleBulkSame ==
    \A id \in Ids :
        latest[id].path = "bulk" =>
            LET single == SingleRecordOf(latest[id].doc, latest[id].modelFails)
            IN  /\ id \in DOMAIN store.docs
                /\ store.docs[id].title = single.title
                /\ store.docs[id].content = single.content
                /\ store.docs[id].category = single.category
                /\ store.docs[id].tags = single.tags
                /\ latest[id].doc.category = NoneStr
                      => store.docs[id].category = ""
                /\ latest[id].doc.tags = NoneTags
                      => store.docs[id].tags = <<>>

\* C25: agent bookkeeping.  For every registered agent, get_status
\* reports total_actions equal to the number of execute_action calls made
\* on it, successful_actions at most total_actions and counting exactly
\* the recorded actions of the tools "search" and "analyze", and
\* memory_entries equal to the number of think calls made on it; the call
\* counts only grow, so no counter decreases.  (A call whose parameters
\* carry the key tool_name raises before an action is recorded.)
C25_AgentBookkeeping ==
    \A a \in DOMAIN agents.registry :
        LET agent == agents.registry[a]
            status == get_status(agent)
        IN  /\ status.total_actions = agent.calls_execute
            /\ status.successful_actions <= status.total_actions
            /\ status.successful_actions
                 = Cardinality({n \in DOMAIN agent.actions_history :
                                  agent.actions_history[n].tool_name
                                      \in {"search", "analyze"}})
            /\ status.memory_entries = agent.calls_think

\* C26: statistics failure is swallowed.  When the store's stats call
\* fails, or its response does not list the index, get_statistics
\* returns an empty mapping without raising, and the statistics route
\* responds success=True with the empty statistics, not an error.
C26_StatisticsSwallowed ==
    (last.op = "get_statistics" /\ last.fault # "") =>
        /\ ~last.raised
        /\ last.calls = <<"stats">>
        /\ last.stats = NoStatistics
        /\ last.stats.empty
        /\ ApiStatus(last) = 200
        /\ last.response.success

\* C26 witness: the stats response did not list the index although the
\* index holds documents; the route answered success with empty
\* statistics.
C26_Witness ==
    /\ last.op = "get_statistics"
    /\ last.request.searchResp = "malformed"
    /\ last.fault = "KeyError"
    /\ last.stats.empty
    /\ last.response.success
    /\ Cardinality(DOMAIN store.docs) > 0

====
